---- MODULE Spec2Model ----
(***************************************************************************)
(* A model of the BFGS optimizer of lesstimate (bfgsOptim.h) and of the    *)
(* smooth ridge penalty it is combined with (glmnet_ridge.h).              *)
(*                                                                         *)
(* Doubles are modelled as exact extended rationals: a pair <<n, d>> with  *)
(* d > 0 in lowest terms is the number n/d, <<1, 0>> is +Inf, <<-1, 0>> is *)
(* -Inf and <<0, 0>> is NaN.  Arithmetic and comparisons follow IEEE 754   *)
(* on these values (NaN propagates, every comparison with NaN is false);   *)
(* rounding, overflow and the sign of zero are not modelled.               *)
(***************************************************************************)
EXTENDS Integers, Sequences, FiniteSets, TLC

VARIABLES
  \* ---- bfgsOptim (bfgsOptim.h:260-472)
  pc,                  \* "loop" while in the outer iteration, "done" after return
  control_,            \* controlBFGS
  problem,             \* model_, smoothPenalty_ tuning parameters, starting values
  parameters_k, parameters_kMinus1,
  fit_k, fit_kMinus1,
  gradients_k, gradients_kMinus1,
  Hessian_k, Hessian_kMinus1,
  direction,
  fits,
  outer_iteration,
  breakOuter,
  warnings,            \* the warnings emitted through warn(), in order
  fitResults_,         \* the returned record, << >> before the return
  history,             \* per executed outer iteration: what it did
  \* ---- a direct call of bfgsLineSearch (bfgsOptim.h:105-241)
  lsArgs, lsResult,
  \* ---- direct calls of penaltyRidgeGlmnet (glmnet_ridge.h:13-63)
  ridgeArgs, ridgeResult

vars == <<pc, control_, problem, parameters_k, parameters_kMinus1, fit_k,
          fit_kMinus1, gradients_k, gradients_kMinus1, Hessian_k,
          Hessian_kMinus1, direction, fits, outer_iteration, breakOuter,
          warnings, fitResults_, history, lsArgs, lsResult, ridgeArgs,
          ridgeResult>>

optimVars == <<pc, control_, problem, parameters_k, parameters_kMinus1, fit_k,
               fit_kMinus1, gradients_k, gradients_kMinus1, Hessian_k,
               Hessian_kMinus1, direction, fits, outer_iteration, breakOuter,
               warnings, fitResults_, history>>

lsVars == <<lsArgs, lsResult>>

ridgeVars == <<ridgeArgs, ridgeResult>>

(***************************************************************************)
(* Bounds of the model.                                                    *)
(***************************************************************************)
\* the largest maxIterOut a drawn control uses
MaxIterOut == 2
\* the largest maxIterLine a drawn control or line-search call uses
MaxIterLine == 3

(***************************************************************************)
(* double                                                                  *)
(***************************************************************************)
RECURSIVE GCD(_, _)
GCD(a, b) == IF b = 0 THEN a ELSE GCD(b, a % b)

AbsInt(n) == IF n < 0 THEN -n ELSE n

SignInt(n) == IF n > 0 THEN 1 ELSE IF n < 0 THEN -1 ELSE 0

\* the double n/d (d may be 0 or negative), in the canonical representation
Q(n, d) ==
  IF d = 0 THEN <<SignInt(n), 0>>
  ELSE LET s == IF d < 0 THEN -1 ELSE 1
           g == GCD(AbsInt(n), AbsInt(d))
       IN <<(s * n) \div g, (s * d) \div g>>

NaN == <<0, 0>>
Inf == <<1, 0>>
ZERO == <<0, 1>>
ONE == <<1, 1>>

\* arma::is_finite / std::isfinite on one double
IsFinite(x) == x[2] # 0

IsNaN(x) == x = NaN

Neg(x) == <<-x[1], x[2]>>

Add(x, y) ==
  IF IsNaN(x) \/ IsNaN(y) THEN NaN
  ELSE IF ~IsFinite(x) /\ ~IsFinite(y) THEN (IF x = y THEN x ELSE NaN)
  ELSE IF ~IsFinite(x) THEN x
  ELSE IF ~IsFinite(y) THEN y
  ELSE LET g == GCD(x[2], y[2])
       IN Q(x[1] * (y[2] \div g) + y[1] * (x[2] \div g), (x[2] \div g) * y[2])

Sub(x, y) == Add(x, Neg(y))

\* Inf * 0 = NaN, Inf * Inf = Inf, NaN * x = NaN
Mul(x, y) ==
  IF x[2] = 0 \/ y[2] = 0 THEN <<SignInt(x[1]) * SignInt(y[1]), 0>>
  ELSE LET g1 == GCD(AbsInt(x[1]), y[2])
           g2 == GCD(AbsInt(y[1]), x[2])
       IN Q((x[1] \div g1) * (y[1] \div g2), (x[2] \div g2) * (y[2] \div g1))

\* x / y; 1/0 = Inf, 0/0 = NaN, 1/Inf = 0
Div(x, y) ==
  LET inv == IF y[1] > 0 THEN <<y[2], y[1]>>
             ELSE IF y[1] < 0 THEN <<-y[2], -y[1]>>
             ELSE IF y[2] = 0 THEN NaN ELSE Inf
  IN Mul(x, inv)

\* x <= y on doubles: false when either is NaN
Leq(x, y) ==
  IF IsNaN(x) \/ IsNaN(y) THEN FALSE
  ELSE IF ~IsFinite(x) /\ ~IsFinite(y) THEN x[1] <= y[1]
  ELSE IF ~IsFinite(x) THEN x[1] < 0
  ELSE IF ~IsFinite(y) THEN y[1] > 0
  ELSE LET g == GCD(x[2], y[2])
       IN x[1] * (y[2] \div g) <= y[1] * (x[2] \div g)

\* x < y on doubles: false when either is NaN
Lt(x, y) == Leq(x, y) /\ x # y

\* std::abs / arma::abs on one double
Abs(x) == <<AbsInt(x[1]), x[2]>>

\* std::pow(x, n) for an integer exponent n >= 0 (pow(x, 0) = 1 for every x)
RECURSIVE Pow(_, _)
Pow(x, n) == IF n = 0 THEN ONE ELSE Mul(x, Pow(x, n - 1))

(***************************************************************************)
(* arma::rowvec and arma::mat: a vector is a sequence of doubles, a matrix *)
(* a sequence of rows.                                                     *)
(***************************************************************************)
RECURSIVE SumTo(_, _)
SumTo(v, n) == IF n = 0 THEN ZERO ELSE Add(SumTo(v, n - 1), v[n])

\* arma::sum
Sum(v) == SumTo(v, Len(v))

Fill(n, x) == [i \in 1..n |-> x]

VAdd(u, v) == [i \in 1..Len(u) |-> Add(u[i], v[i])]

VSub(u, v) == [i \in 1..Len(u) |-> Sub(u[i], v[i])]

VScale(c, v) == [i \in 1..Len(v) |-> Mul(c, v[i])]

Dot(u, v) == Sum([i \in 1..Len(u) |-> Mul(u[i], v[i])])

MatVec(M, v) == [i \in 1..Len(M) |-> Dot(M[i], v)]

\* direction * Hessian * trans(direction)
Quad(v, M) == Dot(v, MatVec(M, v))

\* arma::is_finite on a vector
AllFinite(v) == \A i \in 1..Len(v) : IsFinite(v[i])

(***************************************************************************)
(* penaltyRidgeGlmnet (glmnet_ridge.h).  Tuning parameters are a record    *)
(* [alpha, lambda, weights] of vectors (tuningParametersEnetGlmnet).       *)
(***************************************************************************)
\* faulty variant: the sum of alpha compared with 1 instead of with alpha.n_elem
ridgeNotUsed_sumIsOne(tuningParameters) ==
  Sum(tuningParameters.alpha) = ONE

\* faulty variant: the fast path taken as soon as some alpha is 1
ridgeNotUsed_someIsOne(tuningParameters) ==
  \E i \in 1..Len(tuningParameters.alpha) : tuningParameters.alpha[i] = ONE

\* "if ridge is not used": arma::sum(alpha) == alpha.n_elem
ridgeNotUsed(tuningParameters) ==
  Sum(tuningParameters.alpha) = Q(Len(tuningParameters.alpha), 1)

\* faulty variant: the weights left out of lambda_i
lambda_i_noWeights(tuningParameters, p) ==
  Mul(Sub(ONE, tuningParameters.alpha[p]), tuningParameters.lambda[p])

lambda_i(tuningParameters, p) ==
  Mul(Mul(Sub(ONE, tuningParameters.alpha[p]), tuningParameters.lambda[p]),
      tuningParameters.weights[p])

\* arma::rowvec gradients(n_elem); gradients.fill(0.0)
zeroGradients(n) == Fill(n, ZERO)

\* the penalty accumulated by the loop over the parameters
penaltyLoop(parameterValues, tuningParameters) ==
  Sum([p \in 1..Len(parameterValues) |->
         Mul(lambda_i(tuningParameters, p), Pow(parameterValues[p], 2))])

getValue(parameterValues, tuningParameters) ==
  IF ridgeNotUsed(tuningParameters) THEN ZERO
  ELSE penaltyLoop(parameterValues, tuningParameters)

getGradients(parameterValues, tuningParameters) ==
  IF ridgeNotUsed(tuningParameters) THEN zeroGradients(Len(parameterValues))
  ELSE [p \in 1..Len(parameterValues) |->
          Mul(Mul(lambda_i(tuningParameters, p), Q(2, 1)), parameterValues[p])]

(***************************************************************************)
(* The objective (class model, model.h): any pair of functions fit and     *)
(* gradients.  The objectives drawn here are separable quadratics          *)
(*   fit(x) = sum_i a[i] * x[i]^2 + b[i] * x[i]                            *)
(* that return the non-finite value `bad` where some x[i] lies outside     *)
(* [lo, hi], with gradients that are NaN where some x[i] lies outside      *)
(* [glo, ghi].                                                             *)
(***************************************************************************)
InRange(x, lo, hi) == \A i \in 1..Len(x) : Leq(lo, x[i]) /\ Leq(x[i], hi)

modelFit(model_, parameters) ==
  IF InRange(parameters, model_.lo, model_.hi)
  THEN Sum([i \in 1..Len(parameters) |->
              Add(Mul(model_.a[i], Pow(parameters[i], 2)),
                  Mul(model_.b[i], parameters[i]))])
  ELSE model_.bad

modelGradients(model_, parameters) ==
  IF InRange(parameters, model_.glo, model_.ghi)
  THEN [i \in 1..Len(parameters) |->
          Add(Mul(Mul(Q(2, 1), model_.a[i]), parameters[i]), model_.b[i])]
  ELSE Fill(Len(parameters), NaN)

\* model_.fit(...) + smoothPenalty_.getValue(...)
combinedFit(prob, parameters) ==
  Add(modelFit(prob.model_, parameters),
      getValue(parameters, prob.tuningParameters))

\* model_.gradients(...) + smoothPenalty_.getGradients(...)
combinedGradients(prob, parameters) ==
  VAdd(modelGradients(prob.model_, parameters),
       getGradients(parameters, prob.tuningParameters))

(***************************************************************************)
(* arma::solve(A, B) for one and two parameters (Cramer's rule), and       *)
(* lessSEM::BFGS (bfgs.h).                                                 *)
(***************************************************************************)
solve(A, B) ==
  IF Len(B) = 1 THEN <<Div(B[1], A[1][1])>>
  ELSE LET det == Sub(Mul(A[1][1], A[2][2]), Mul(A[1][2], A[2][1]))
       IN <<Div(Sub(Mul(B[1], A[2][2]), Mul(A[1][2], B[2])), det),
            Div(Sub(Mul(A[1][1], B[2]), Mul(B[1], A[2][1])), det)>>

\* the secant update H - (H d d' H)/(d' H d) + (y y')/(y' d), kept at the
\* previous Hessian when the curvature condition y' d >= hessianEps fails
BFGS(par_kMinus1, grad_kMinus1, Hess_kMinus1, par_k, grad_k, hessianEps) ==
  LET y == VSub(grad_k, grad_kMinus1)
      d == VSub(par_k, par_kMinus1)
      yd == Dot(y, d)
      Hd == MatVec(Hess_kMinus1, d)
      dHd == Dot(d, Hd)
      n == Len(d)
  IN IF ~Leq(hessianEps, yd) THEN Hess_kMinus1
     ELSE [i \in 1..n |-> [j \in 1..n |->
             Add(Sub(Hess_kMinus1[i][j], Div(Mul(Hd[i], Hd[j]), dHd)),
                 Div(Mul(y[i], y[j]), yd))]]

(***************************************************************************)
(* bfgsLineSearch (bfgsOptim.h:105-241).  `a` holds the arguments:         *)
(* prob (model_, tuningParameters), parameters_kMinus1, direction,         *)
(* fit_kMinus1, gradients_kMinus1, Hessian_kMinus1, stepSize, sigma,       *)
(* gamma, maxIterLine; r1 and r2 are the two draws of unif(1, 0.0, 1.0).   *)
(***************************************************************************)
\* lines 150-169: the clamp of a step size >= 1 and the random reset
initialStepSize(stepSize, r1, r2) ==
  LET clamped == IF Leq(ONE, stepSize) THEN Q(9, 10) ELSE stepSize
  IN IF Lt(r1, Q(1, 4)) THEN r2 ELSE clamped

\* faulty variant: the exponent off by one, so that the first step is stepSize
setStepSize_offByOne(stepSize, currentStepSize, iteration) ==
  Pow(stepSize, iteration + 1)

\* faulty variant: the step length carried over from before the loop and
\* multiplied by stepSize from one iteration to the next
setStepSize_fromCurrent(stepSize, currentStepSize, iteration) ==
  IF iteration = 0 THEN currentStepSize ELSE Mul(currentStepSize, stepSize)

\* line 177: currentStepSize = std::pow(stepSize, iteration)
setStepSize(stepSize, currentStepSize, iteration) == Pow(stepSize, iteration)

\* lines 209-213: compareTo, with pen_d = pen_0 = 0.0
compareTo(a) ==
  Sub(Add(Add(Dot(a.gradients_kMinus1, a.direction),
              Mul(a.gamma, Quad(a.direction, a.Hessian_kMinus1))),
          ZERO), ZERO)

\* faulty variant: any non-increase accepted, the tolerance left out
sufficientDecrease_noTolerance(a, f_k, currentStepSize) ==
  Leq(Sub(f_k, Add(a.fit_kMinus1, ZERO)), ZERO)

\* faulty variant: a strict decrease is required (< instead of <=)
sufficientDecrease_strict(a, f_k, currentStepSize) ==
  Lt(Sub(f_k, Add(a.fit_kMinus1, ZERO)),
     Mul(Mul(a.sigma, currentStepSize), compareTo(a)))

\* line 217: f_k - f_0 <= sigma * currentStepSize * compareTo(0, 0)
sufficientDecrease(a, f_k, currentStepSize) ==
  Leq(Sub(f_k, Add(a.fit_kMinus1, ZERO)),
      Mul(Mul(a.sigma, currentStepSize), compareTo(a)))

\* lines 173-235: the loop from `iteration` on.  s is the loop's state:
\* currentStepSize, converged, parameters_k, and (for the properties) the
\* step lengths tried so far, whether the loop was left through `break`,
\* and whether the last candidate evaluated passed the test of line 217.
RECURSIVE lineSearchLoop(_, _, _)
lineSearchLoop(a, iteration, s) ==
  IF iteration >= a.maxIterLine THEN s
  ELSE
    LET currentStepSize == setStepSize(a.stepSize, s.currentStepSize, iteration)
        parameters == VAdd(a.parameters_kMinus1,
                           VScale(currentStepSize, a.direction))
        fit == combinedFit(a.prob, parameters)
        tried == [s EXCEPT !.currentStepSize = currentStepSize,
                           !.parameters_k = parameters,
                           !.steps = Append(s.steps, currentStepSize),
                           !.passed = FALSE]
    IN IF ~IsFinite(fit)
       THEN lineSearchLoop(a, iteration + 1, tried)
       ELSE LET converged == sufficientDecrease(a, Add(fit, ZERO), currentStepSize)
                tested == [tried EXCEPT !.converged = converged,
                                        !.passed = converged]
            IN IF converged
               THEN IF ~AllFinite(modelGradients(a.prob.model_, parameters))
                    THEN lineSearchLoop(a, iteration + 1, tested)
                    ELSE [tested EXCEPT !.broke = TRUE]
               ELSE lineSearchLoop(a, iteration + 1, tested)

\* the whole call: the returned parameters_k and whether
\* "Line search did not converge." was emitted
bfgsLineSearch(a, r1, r2) ==
  LET n == Len(a.gradients_kMinus1)
      s == lineSearchLoop(a, 0,
             [currentStepSize |-> initialStepSize(a.stepSize, r1, r2),
              converged |-> FALSE,
              parameters_k |-> Fill(n, NaN),
              steps |-> << >>,
              broke |-> FALSE,
              passed |-> FALSE])
  IN [parameters_k |-> s.parameters_k,
      warned |-> ~s.converged,
      steps |-> s.steps,
      broke |-> s.broke,
      passed |-> s.passed]

(***************************************************************************)
(* Direct calls of penaltyRidgeGlmnet: the arguments are drawn, then       *)
(* getValue and getGradients are applied to them.                          *)
(***************************************************************************)
\* the numbers of parameters drawn
Dims == {1, 2}

Vectors(n, S) == [1..n -> S]

RidgeParameterValues == {Q(-1, 1), ZERO, Q(2, 1), Q(3, 1), Inf}

\* tuning parameters keep the invariant of tuningParametersEnetGlmnet:
\* finite values, alpha in [0, 1]
AlphaValues == {ZERO, Q(1, 2), ONE}

LambdaValues == {ZERO, ONE, Q(3, 1)}

WeightValues == {ONE, Q(2, 1)}

TuningParameters(n) ==
  [alpha : Vectors(n, AlphaValues), lambda : Vectors(n, LambdaValues),
   weights : Vectors(n, WeightValues)]

OptimIdle ==
  /\ pc = "idle"
  /\ control_ = << >> /\ problem = << >>
  /\ parameters_k = << >> /\ parameters_kMinus1 = << >>
  /\ fit_k = NaN /\ fit_kMinus1 = NaN
  /\ gradients_k = << >> /\ gradients_kMinus1 = << >>
  /\ Hessian_k = << >> /\ Hessian_kMinus1 = << >>
  /\ direction = << >> /\ fits = << >>
  /\ outer_iteration = 0 /\ breakOuter = FALSE
  /\ warnings = << >> /\ fitResults_ = << >> /\ history = << >>

LSIdle == lsArgs = << >> /\ lsResult = << >>

RidgeIdle == ridgeArgs = << >> /\ ridgeResult = << >>

InitRidge ==
  /\ OptimIdle /\ LSIdle
  /\ \E n \in Dims :
       \E parameterValues \in Vectors(n, RidgeParameterValues) :
         \E tuningParameters \in TuningParameters(n) :
           ridgeArgs = [parameterValues |-> parameterValues,
                        tuningParameters |-> tuningParameters]
  /\ ridgeResult = [valueDone |-> FALSE, value |-> NaN, fastPath |-> FALSE,
                    gradientsDone |-> FALSE, gradients |-> << >>]

RidgeGetValue ==
  /\ ridgeArgs # << >> /\ ~ridgeResult.valueDone
  /\ ridgeResult' =
       [ridgeResult EXCEPT
          !.valueDone = TRUE,
          !.value = getValue(ridgeArgs.parameterValues, ridgeArgs.tuningParameters),
          !.fastPath = ridgeNotUsed(ridgeArgs.tuningParameters)]
  /\ UNCHANGED <<ridgeArgs, optimVars, lsVars>>

RidgeGetGradients ==
  /\ ridgeArgs # << >> /\ ~ridgeResult.gradientsDone
  /\ ridgeResult' =
       [ridgeResult EXCEPT
          !.gradientsDone = TRUE,
          !.gradients = getGradients(ridgeArgs.parameterValues,
                                     ridgeArgs.tuningParameters)]
  /\ UNCHANGED <<ridgeArgs, optimVars, lsVars>>

NextRidge == RidgeGetValue \/ RidgeGetGradients

SpecRidge == InitRidge /\ [][NextRidge]_vars

AllAlphaOne(tuningParameters) ==
  \A i \in 1..Len(tuningParameters.alpha) : tuningParameters.alpha[i] = ONE

\* C9: if every alpha[i] = 1, getValue returns exactly 0 and getGradients
\* the all-zero vector of the parameters' length, whatever lambda, weights
\* and the parameter values are.
C9_RidgeDisabledIsZero ==
  (ridgeArgs # << >> /\ AllAlphaOne(ridgeArgs.tuningParameters)) =>
    /\ ridgeResult.valueDone => ridgeResult.value = ZERO
    /\ ridgeResult.gradientsDone =>
         /\ Len(ridgeResult.gradients) = Len(ridgeArgs.parameterValues)
         /\ \A i \in 1..Len(ridgeResult.gradients) :
              ridgeResult.gradients[i] = ZERO

\* both functions were applied to two parameters, one of them infinite,
\* with every alpha 1 and non-zero lambda and weights
C9_Witness ==
  /\ ridgeArgs # << >> /\ AllAlphaOne(ridgeArgs.tuningParameters)
  /\ ridgeResult.valueDone /\ ridgeResult.gradientsDone
  /\ ridgeArgs.parameterValues = <<Q(3, 1), Inf>>
  /\ ridgeArgs.tuningParameters.lambda = <<Q(3, 1), ONE>>
  /\ ridgeArgs.tuningParameters.weights = <<Q(2, 1), Q(2, 1)>>

\* the penalty of the first n parameters, term by term
RECURSIVE RidgeTerms(_, _, _)
RidgeTerms(x, tp, n) ==
  IF n = 0 THEN ZERO
  ELSE Add(RidgeTerms(x, tp, n - 1),
           Mul(Mul(Mul(Sub(ONE, tp.alpha[n]), tp.lambda[n]), tp.weights[n]),
               Mul(x[n], x[n])))

ScenarioRidge ==
  [parameterValues |-> <<Q(2, 1), Q(3, 1)>>,
   tuningParameters |-> [alpha |-> <<Q(1, 2), Q(1, 2)>>,
                         lambda |-> <<ONE, ONE>>,
                         weights |-> <<ONE, ONE>>]]

\* C10: whenever not every alpha[i] is 1, getValue returns the sum over
\* all parameters of (1 - alpha[i]) * lambda[i] * weights[i] * params[i]^2
\* (6.5 for params [2,3], alpha [.5,.5], lambda [1,1], weights [1,1]), and
\* the fast path is taken only when every alpha[i] is 1.
C10_RidgeValueIsSum ==
  (ridgeArgs # << >> /\ ridgeResult.valueDone) =>
    /\ ~AllAlphaOne(ridgeArgs.tuningParameters) =>
         ridgeResult.value =
           RidgeTerms(ridgeArgs.parameterValues, ridgeArgs.tuningParameters,
                      Len(ridgeArgs.parameterValues))
    /\ ridgeResult.fastPath => AllAlphaOne(ridgeArgs.tuningParameters)
    /\ ridgeArgs = ScenarioRidge => ridgeResult.value = Q(13, 2)

\* getValue was applied to the scenario's arguments and took the loop
C10_Witness ==
  /\ ridgeArgs = ScenarioRidge
  /\ ridgeResult.valueDone /\ ~ridgeResult.fastPath
  /\ ridgeResult.value = Q(13, 2)

\* C11: for every parameter vector and every index i with alpha[i] < 1,
\* component i of the gradient returned by getGradients equals
\* 2 * lambda_i * params[i] with lambda_i = (1 - alpha[i]) * lambda[i] *
\* weights[i], whatever the alpha values of the other parameters are.
C11_RidgeGradientIsDerivative ==
  (ridgeArgs # << >> /\ ridgeResult.gradientsDone) =>
    LET x == ridgeArgs.parameterValues
        tp == ridgeArgs.tuningParameters
    IN /\ Len(ridgeResult.gradients) = Len(x)
       /\ \A i \in 1..Len(x) :
            Lt(tp.alpha[i], ONE) =>
              ridgeResult.gradients[i] =
                Mul(Mul(Q(2, 1),
                        Mul(Mul(Sub(ONE, tp.alpha[i]), tp.lambda[i]),
                            tp.weights[i])),
                    x[i])

\* getGradients was applied to two parameters, the first with alpha 1/2,
\* lambda 3 and weight 2, the second with alpha 1: the gradient is [18, 0]
C11_Witness ==
  /\ ridgeArgs # << >> /\ ridgeResult.gradientsDone
  /\ ridgeArgs.parameterValues = <<Q(3, 1), Q(2, 1)>>
  /\ ridgeArgs.tuningParameters.alpha = <<Q(1, 2), ONE>>
  /\ ridgeArgs.tuningParameters.lambda = <<Q(3, 1), ONE>>
  /\ ridgeArgs.tuningParameters.weights = <<Q(2, 1), ONE>>
  /\ ridgeResult.gradients = <<Q(18, 1), ZERO>>

(***************************************************************************)
(* The objectives, penalties and search constants that are drawn.          *)
(***************************************************************************)
NInf == Neg(Inf)

\* f(x) = x^2, defined everywhere
Quadratic ==
  [a |-> <<ONE>>, b |-> <<ZERO>>, lo |-> NInf, hi |-> Inf,
   glo |-> NInf, ghi |-> Inf, bad |-> NaN]

\* f(x) = x^2 on [-1, 12] and NaN outside; gradients computable on [1, 12]
QuadraticNaN ==
  [a |-> <<ONE>>, b |-> <<ZERO>>, lo |-> Q(-1, 1), hi |-> Q(12, 1),
   glo |-> ONE, ghi |-> Q(12, 1), bad |-> NaN]

\* f(x) = x^2 - 2x on [-1, 12] and +Inf outside, gradients everywhere
QuadraticInf ==
  [a |-> <<ONE>>, b |-> <<Q(-2, 1)>>, lo |-> Q(-1, 1), hi |-> Q(12, 1),
   glo |-> NInf, ghi |-> Inf, bad |-> Inf]

\* f(x, y) = x^2 + 2 y^2 - 4 y, defined everywhere
Quadratic2 ==
  [a |-> <<ONE, Q(2, 1)>>, b |-> <<ZERO, Q(-4, 1)>>, lo |-> NInf, hi |-> Inf,
   glo |-> NInf, ghi |-> Inf, bad |-> NaN]

RidgeOff(n) == [alpha |-> Fill(n, ONE), lambda |-> Fill(n, ONE),
                weights |-> Fill(n, ONE)]

RidgeHalf(n) == [alpha |-> Fill(n, Q(1, 2)), lambda |-> Fill(n, ONE),
                 weights |-> Fill(n, ONE)]

StepSizes == {Q(1, 2), ONE, Q(2, 1)}

Sigmas == {ZERO, Q(1, 100)}

Gammas == {ZERO, ONE}

\* the outcomes <<r1, r2>> of the two calls of unif(1, 0.0, 1.0) that are
\* drawn; the second call is made only when r1 < 0.25
RandomDraws ==
  {<<Q(1, 2), Q(1, 2)>>, <<Q(1, 10), Q(1, 5)>>, <<Q(1, 10), Q(3, 4)>>}

\* the arguments of a direct call of bfgsLineSearch with one parameter ...
LSCalls1 ==
  [prob : [model_ : {Quadratic, QuadraticNaN, QuadraticInf},
           tuningParameters : {RidgeOff(1), RidgeHalf(1)}],
   parameters_kMinus1 : {<<Q(10, 1)>>, <<Q(2, 1)>>},
   direction : {<<Q(-10, 1)>>, <<Q(-20, 1)>>, <<Q(4, 1)>>},
   fit_kMinus1 : {ZERO, Q(4, 1), Q(100, 1), Inf, NaN},
   gradients_kMinus1 : {<<Q(20, 1)>>},
   Hessian_kMinus1 : {<< <<Q(2, 1)>> >>},
   stepSize : StepSizes, sigma : Sigmas, gamma : Gammas,
   maxIterLine : 0..MaxIterLine]

\* ... with one parameter and gradients that are not a number, which make
\* the right-hand side of the sufficient-decrease test NaN ...
LSCallsNaN ==
  [prob : [model_ : {Quadratic, QuadraticNaN, QuadraticInf},
           tuningParameters : {RidgeOff(1)}],
   parameters_kMinus1 : {<<Q(10, 1)>>},
   direction : {<<Q(-10, 1)>>},
   fit_kMinus1 : {ZERO, Q(100, 1)},
   gradients_kMinus1 : {<<NaN>>},
   Hessian_kMinus1 : {<< <<Q(2, 1)>> >>},
   stepSize : StepSizes, sigma : Sigmas, gamma : {ZERO},
   maxIterLine : 0..MaxIterLine]

\* ... and with two
LSCalls2 ==
  [prob : [model_ : {Quadratic2}, tuningParameters : {RidgeOff(2)}],
   parameters_kMinus1 : {<<Q(2, 1), Q(3, 1)>>},
   direction : {<<Q(-2, 1), Q(-2, 1)>>, <<Q(-4, 1), Q(-4, 1)>>},
   fit_kMinus1 : {ZERO, Q(10, 1), Inf},
   gradients_kMinus1 : {<<Q(4, 1), Q(8, 1)>>},
   Hessian_kMinus1 : {<< <<Q(2, 1), ZERO>>, <<ZERO, Q(4, 1)>> >>},
   stepSize : StepSizes, sigma : Sigmas, gamma : Gammas,
   maxIterLine : 0..MaxIterLine]

InitLS ==
  /\ OptimIdle /\ RidgeIdle
  /\ lsArgs \in LSCalls1 \cup LSCallsNaN \cup LSCalls2
  /\ lsResult = << >>

LSCall ==
  /\ lsArgs # << >> /\ lsResult = << >>
  /\ \E r \in RandomDraws : lsResult' = bfgsLineSearch(lsArgs, r[1], r[2])
  /\ UNCHANGED <<lsArgs, optimVars, ridgeVars>>

NextLS == LSCall

SpecLS == InitLS /\ [][NextLS]_vars

(***************************************************************************)
(* What a call of bfgsLineSearch with arguments a is stated to do.         *)
(***************************************************************************)
\* the candidate of line-search iteration i for the configured stepSize
Candidate(a, i) ==
  VAdd(a.parameters_kMinus1, VScale(Pow(a.stepSize, i), a.direction))

CandidateFit(a, i) == combinedFit(a.prob, Candidate(a, i))

\* gradient_kMinus1 . direction + gamma * direction Hessian direction^T
DirectionalTerm(a) ==
  Add(Dot(a.gradients_kMinus1, a.direction),
      Mul(a.gamma, Dot(a.direction, MatVec(a.Hessian_kMinus1, a.direction))))

\* candidate i has a finite fit and passes the sufficient-decrease test
PassesTest(a, i) ==
  /\ IsFinite(CandidateFit(a, i))
  /\ Leq(Sub(CandidateFit(a, i), a.fit_kMinus1),
         Mul(Mul(a.sigma, Pow(a.stepSize, i)), DirectionalTerm(a)))

Iterations(a) == 0..(a.maxIterLine - 1)

Least(S) == CHOOSE i \in S : \A j \in S : i <= j

LSDone == lsArgs # << >> /\ lsResult # << >>

\* C1 as stated, for the calls with a finite f_0 and directional term and
\* an objective whose gradients are finite wherever its fit is: with
\* sigma = 0 the returned point is the first candidate whose combined fit is
\* finite, whether that fit is above or below f_0.
C1_FirstFiniteAccepted ==
  (/\ LSDone /\ lsArgs.sigma = ZERO
   /\ IsFinite(lsArgs.fit_kMinus1) /\ IsFinite(DirectionalTerm(lsArgs))
   /\ \A i \in Iterations(lsArgs) :
        IsFinite(CandidateFit(lsArgs, i)) =>
          AllFinite(modelGradients(lsArgs.prob.model_, Candidate(lsArgs, i)))) =>
    LET finite == {i \in Iterations(lsArgs) : IsFinite(CandidateFit(lsArgs, i))}
    IN finite # {} =>
         lsResult.parameters_k = Candidate(lsArgs, Least(finite))

\* candidate i is one the search stops at when sigma = 0
AcceptableAtSigmaZero(a, i) ==
  /\ IsFinite(CandidateFit(a, i))
  /\ Leq(CandidateFit(a, i), a.fit_kMinus1)
  /\ IsFinite(DirectionalTerm(a))
  /\ AllFinite(modelGradients(a.prob.model_, Candidate(a, i)))

\* C1 (amended): with sigma = 0 and maxIterLine >= 1 the returned point is
\* the first candidate whose combined fit is finite and not above f_0 and
\* whose model gradients are finite (the directional term being finite);
\* when there is none, it is the last candidate.
C1_FirstNonIncreasingAccepted ==
  (LSDone /\ lsArgs.sigma = ZERO /\ lsArgs.maxIterLine >= 1) =>
    LET ok == {i \in Iterations(lsArgs) : AcceptableAtSigmaZero(lsArgs, i)}
    IN lsResult.parameters_k =
         Candidate(lsArgs, IF ok # {} THEN Least(ok) ELSE lsArgs.maxIterLine - 1)

\* sigma = 0: the full step has a finite fit above f_0 and is passed over
\* for the half step, whose fit is below f_0
C1_Witness ==
  /\ LSDone /\ lsArgs.sigma = ZERO /\ lsArgs.maxIterLine >= 2
  /\ IsFinite(CandidateFit(lsArgs, 0))
  /\ Lt(lsArgs.fit_kMinus1, CandidateFit(lsArgs, 0))
  /\ AcceptableAtSigmaZero(lsArgs, 1)
  /\ Lt(CandidateFit(lsArgs, 1), lsArgs.fit_kMinus1)
  /\ lsResult.parameters_k = Candidate(lsArgs, 1)
  /\ ~lsResult.warned

\* C4: if no candidate among the maxIterLine attempts passes the
\* sufficient-decrease test, the call returns the last attempted candidate,
\* parameters_kMinus1 + stepSize^(maxIterLine-1) * direction, and warns
\* "Line search did not converge."; with maxIterLine = 1 that is
\* parameters_kMinus1 + direction.  (With no attempt at all the returned
\* vector is the NaN it was filled with.)
C4_NoPassReturnsLast ==
  (LSDone /\ \A i \in Iterations(lsArgs) : ~PassesTest(lsArgs, i)) =>
    /\ lsResult.warned
    /\ lsArgs.maxIterLine >= 1 =>
         lsResult.parameters_k = Candidate(lsArgs, lsArgs.maxIterLine - 1)
    /\ lsArgs.maxIterLine = 1 =>
         lsResult.parameters_k = VAdd(lsArgs.parameters_kMinus1, lsArgs.direction)
    /\ lsArgs.maxIterLine = 0 =>
         lsResult.parameters_k = Fill(Len(lsArgs.gradients_kMinus1), NaN)

\* three attempts, the first two with a finite fit that fails the test
C4_Witness ==
  /\ LSDone /\ lsArgs.maxIterLine = 3
  /\ \A i \in Iterations(lsArgs) : ~PassesTest(lsArgs, i)
  /\ IsFinite(CandidateFit(lsArgs, 0)) /\ IsFinite(CandidateFit(lsArgs, 1))
  /\ lsArgs.stepSize = Q(1, 2)
  /\ lsResult.warned
  /\ lsResult.parameters_k = VAdd(lsArgs.parameters_kMinus1,
                                  VScale(Q(1, 4), lsArgs.direction))

\* C8 as stated: the step lengths tried are 1 and then strictly shrinking,
\* for every configured stepSize > 0 (a stepSize >= 1 being clamped to 0.9).
C8_StepLengthsShrink ==
  LSDone =>
    /\ Len(lsResult.steps) >= 1 => lsResult.steps[1] = ONE
    /\ \A i \in 1..(Len(lsResult.steps) - 1) :
         Lt(lsResult.steps[i + 1], lsResult.steps[i])

\* C12 as stated: a call with maxIterLine >= 1 that returns without the
\* warning "Line search did not converge." returns a point that has a finite
\* combined fit, passes the sufficient-decrease test for its own step
\* length and has finite model gradients; so a candidate that passed the
\* test with non-finite gradients is never the silent result and never
\* suppresses the warning for a later candidate that failed or was skipped.
C12_SilentReturnIsAccepted ==
  (LSDone /\ lsArgs.maxIterLine >= 1 /\ ~lsResult.warned) =>
    LET point == lsResult.parameters_k
        step == lsResult.steps[Len(lsResult.steps)]
        f_k == combinedFit(lsArgs.prob, point)
    IN /\ IsFinite(f_k)
       /\ Leq(Sub(f_k, lsArgs.fit_kMinus1),
              Mul(Mul(lsArgs.sigma, step), DirectionalTerm(lsArgs)))
       /\ AllFinite(modelGradients(lsArgs.prob.model_, point))

NA_REAL == <<0, -1>>

\* arma::max of a vector: a NaN element never exceeds the running maximum
RECURSIVE maxTo(_, _)
maxTo(v, n) ==
  IF n = 0 THEN NInf
  ELSE LET m == maxTo(v, n - 1) IN IF Lt(m, v[n]) THEN v[n] ELSE m

\* lines 399-413: max(HessDiag * pow(trans(direction), 2)) < breakOuter
convergedGLMNET(Hess_k, dir, breakOuterValue) ==
  Lt(maxTo([i \in 1..Len(dir) |-> Mul(Hess_k[i][i], Pow(dir[i], 2))], Len(dir)),
     breakOuterValue)

\* faulty variant: the change in fit compared without abs
convergedFitChange_noAbs(fitsNow, iteration, breakOuterValue) ==
  Lt(Sub(fitsNow[iteration + 2], fitsNow[iteration + 1]), breakOuterValue)

\* lines 414-426: abs(fits(outer_iteration + 1) - fits(outer_iteration)) < breakOuter
convergedFitChange(fitsNow, iteration, breakOuterValue) ==
  Lt(Abs(Sub(fitsNow[iteration + 2], fitsNow[iteration + 1])), breakOuterValue)

\* faulty variant: the gradients compared without abs
convergedGradients_noAbs(grad_k, breakOuterValue) ==
  Cardinality({i \in 1..Len(grad_k) : Lt(grad_k[i], breakOuterValue)})
    = Len(grad_k)

\* lines 427-441: sum(abs(subGradients) < breakOuter) == subGradients.n_elem
convergedGradients(grad_k, breakOuterValue) ==
  Cardinality({i \in 1..Len(grad_k) : Lt(Abs(grad_k[i]), breakOuterValue)})
    = Len(grad_k)

\* lines 398-441: the value of breakOuter after the convergence check
checkConvergence(ctrl, Hess_k, dir, fitsNow, iteration, grad_k, before) ==
  IF ctrl.convergenceCriterion = "GLMNET_"
    THEN convergedGLMNET(Hess_k, dir, ctrl.breakOuter)
  ELSE IF ctrl.convergenceCriterion = "fitChange_"
    THEN convergedFitChange(fitsNow, iteration, ctrl.breakOuter)
  ELSE IF ctrl.convergenceCriterion = "gradients_"
    THEN convergedGradients(grad_k, ctrl.breakOuter)
  ELSE before

\* lines 341-356: the arguments bfgsOptim hands to bfgsLineSearch
lineSearchArgs(ctrl, prob, par_kMinus1, dir, f_kMinus1, grad_kMinus1, Hess_kMinus1) ==
  [prob |-> [model_ |-> prob.model_, tuningParameters |-> prob.tuningParameters],
   parameters_kMinus1 |-> par_kMinus1,
   direction |-> dir,
   fit_kMinus1 |-> f_kMinus1,
   gradients_kMinus1 |-> grad_kMinus1,
   Hessian_kMinus1 |-> Hess_kMinus1,
   stepSize |-> ctrl.stepSize, sigma |-> ctrl.sigma, gamma |-> ctrl.gamma,
   maxIterLine |-> ctrl.maxIterLine]

\* faulty variant: the minus sign of the quasi-Newton step left out
stepDirection_noMinus(Hess_kMinus1, grad_kMinus1) ==
  solve(Hess_kMinus1, grad_kMinus1)

\* line 338: direction = -trans(solve(Hessian_kMinus1, trans(gradients_kMinus1)))
stepDirection(Hess_kMinus1, grad_kMinus1) ==
  [i \in 1..Len(grad_kMinus1) |-> Neg(solve(Hess_kMinus1, grad_kMinus1)[i])]

\* lines 298-300: fits(maxIterOut + 1), filled with NA_REAL, fits(0) set
initialFits(maxIterOut, fit0) ==
  [i \in 1..(maxIterOut + 1) |-> IF i = 1 THEN fit0 ELSE NA_REAL]

\* faulty variant: the fit written to fits(outer_iteration)
recordFit_offByOne(fitsNow, iteration, penalizedFit_k) ==
  [fitsNow EXCEPT ![iteration + 1] = penalizedFit_k]

\* line 373: fits(outer_iteration + 1) = penalizedFit_k
recordFit(fitsNow, iteration, penalizedFit_k) ==
  [fitsNow EXCEPT ![iteration + 2] = penalizedFit_k]

\* the state after lines 266-321 for the given control and problem
InitOptimWith(ctrl, prob) ==
  /\ pc = "loop"
  /\ control_ = ctrl
  /\ problem = prob
  /\ parameters_k = prob.startingValues
  /\ parameters_kMinus1 = prob.startingValues
  /\ fit_k = combinedFit(prob, prob.startingValues)
  /\ fit_kMinus1 = combinedFit(prob, prob.startingValues)
  /\ fits = initialFits(ctrl.maxIterOut, combinedFit(prob, prob.startingValues))
  /\ gradients_k = combinedGradients(prob, prob.startingValues)
  /\ gradients_kMinus1 = combinedGradients(prob, prob.startingValues)
  /\ Hessian_k = ctrl.initialHessian
  /\ Hessian_kMinus1 = ctrl.initialHessian
  \* arma::rowvec direction(n_elem): not read before line 338 assigns it
  /\ direction = << >>
  /\ outer_iteration = 0
  /\ breakOuter = FALSE
  /\ warnings = << >>
  /\ fitResults_ = << >>
  /\ history = << >>

\* lines 324-455: one pass through the body of the outer iteration.  Each
\* value is bound once, in the order the code computes it.
OuterIteration ==
  /\ pc = "loop" /\ ~breakOuter
  /\ outer_iteration < control_.maxIterOut
  /\ \E r \in RandomDraws :
     \E grad_kMinus1 \in {combinedGradients(problem, parameters_kMinus1)} :
     \E dir \in {stepDirection(Hessian_kMinus1, grad_kMinus1)} :
     \E ls \in {bfgsLineSearch(
                  lineSearchArgs(control_, problem, parameters_kMinus1, dir,
                                 fit_kMinus1, grad_kMinus1, Hessian_kMinus1),
                  r[1], r[2])} :
     \E grad_k \in {combinedGradients(problem, ls.parameters_k)} :
     \E f_k \in {combinedFit(problem, ls.parameters_k)} :
     \E fitsNow \in {recordFit(fits, outer_iteration, f_k)} :
     \E Hess_k \in {BFGS(parameters_kMinus1, grad_kMinus1, Hessian_kMinus1,
                         ls.parameters_k, grad_k, Q(1, 1000))} :
     \E brk \in {checkConvergence(control_, Hess_k, dir, fitsNow,
                                  outer_iteration, grad_k, breakOuter)} :
       /\ direction' = dir
       /\ parameters_k' = ls.parameters_k
       /\ gradients_k' = grad_k
       /\ fit_k' = f_k
       /\ fits' = fitsNow
       /\ Hessian_k' = Hess_k
       /\ breakOuter' = brk
       /\ warnings' = IF ls.warned
                      THEN Append(warnings, "Line search did not converge.")
                      ELSE warnings
       /\ history' = Append(history,
            [parameters_kMinus1 |-> parameters_kMinus1,
             fit_kMinus1 |-> fit_kMinus1,
             gradients_kMinus1 |-> grad_kMinus1,
             Hessian_kMinus1 |-> Hessian_kMinus1,
             direction |-> dir,
             lineSearch |-> ls,
             parameters_k |-> ls.parameters_k,
             gradients_k |-> grad_k,
             Hessian_k |-> Hess_k])
       \* lines 443-453: break, or save the current values as the previous
       /\ fit_kMinus1' = IF brk THEN fit_kMinus1 ELSE f_k
       /\ parameters_kMinus1' = IF brk THEN parameters_kMinus1 ELSE ls.parameters_k
       /\ gradients_kMinus1' = IF brk THEN grad_kMinus1 ELSE grad_k
       /\ Hessian_kMinus1' = IF brk THEN Hessian_kMinus1 ELSE Hess_k
       /\ outer_iteration' = IF brk THEN outer_iteration ELSE outer_iteration + 1
  /\ UNCHANGED <<pc, control_, problem, fitResults_, lsVars, ridgeVars>>

\* lines 457-470: after the loop
Return ==
  /\ pc = "loop"
  /\ breakOuter \/ outer_iteration >= control_.maxIterOut
  /\ warnings' = IF ~breakOuter
                 THEN Append(warnings, "Outer iterations did not converge")
                 ELSE warnings
  /\ fitResults_' = [convergence |-> breakOuter,
                     fit |-> fit_k,
                     fits |-> fits,
                     parameterValues |-> parameters_k,
                     Hessian |-> Hessian_k]
  /\ pc' = "done"
  /\ UNCHANGED <<control_, problem, parameters_k, parameters_kMinus1, fit_k,
                 fit_kMinus1, gradients_k, gradients_kMinus1, Hessian_k,
                 Hessian_kMinus1, direction, fits, outer_iteration, breakOuter,
                 history, lsVars, ridgeVars>>

(***************************************************************************)
(* The controls and problems that are drawn.                               *)
(***************************************************************************)
Criteria == {"GLMNET_", "fitChange_", "gradients_"}

BreakOuters == {ZERO, Q(1, 10)}

Controls(Hessian) ==
  [initialHessian : {Hessian},
   stepSize : {Q(1, 2), Q(2, 1)}, sigma : Sigmas, gamma : Gammas,
   maxIterOut : 0..MaxIterOut, maxIterLine : {0, 1, MaxIterLine},
   breakOuter : BreakOuters, convergenceCriterion : Criteria]

\* an objective, a penalty and starting values, with an initial Hessian
Setup(model_, tuningParameters, startingValues, Hessian) ==
  [problem |-> [model_ |-> model_, tuningParameters |-> tuningParameters,
                startingValues |-> startingValues],
   initialHessian |-> Hessian]

Setups ==
  {Setup(Quadratic, RidgeOff(1), <<Q(10, 1)>>, << <<Q(2, 1)>> >>),
   Setup(Quadratic, RidgeOff(1), <<Q(10, 1)>>, << <<ONE>> >>),
   Setup(Quadratic, RidgeHalf(1), <<Q(2, 1)>>, << <<Q(2, 1)>> >>),
   Setup(QuadraticNaN, RidgeOff(1), <<Q(10, 1)>>, << <<ONE>> >>),
   Setup(QuadraticInf, RidgeOff(1), <<Q(10, 1)>>, << <<ONE>> >>),
   Setup(Quadratic2, RidgeOff(2), <<Q(2, 1), Q(3, 1)>>,
         << <<Q(2, 1), ZERO>>, <<ZERO, Q(4, 1)>> >>),
   Setup(Quadratic2, RidgeOff(2), <<Q(2, 1), Q(3, 1)>>,
         << <<Q(4, 1), ZERO>>, <<ZERO, Q(8, 1)>> >>)}

\* the end-to-end scenario: f(x) = x^2, ridge disabled, x0 = 10,
\* initialHessian = [2], stepSize = 0.5, sigma = 0.01, gamma = 0,
\* maxIterOut = 50, gradients_, breakOuter = 1e-6
ScenarioProblem ==
  [model_ |-> Quadratic, tuningParameters |-> RidgeOff(1),
   startingValues |-> <<Q(10, 1)>>]

ScenarioControls ==
  [initialHessian : {<< <<Q(2, 1)>> >>},
   stepSize : {Q(1, 2)}, sigma : {Q(1, 100)}, gamma : {ZERO},
   maxIterOut : {50}, maxIterLine : 1..MaxIterLine,
   breakOuter : {Q(1, 1000000)}, convergenceCriterion : {"gradients_"}]

Init ==
  /\ LSIdle /\ RidgeIdle
  /\ \/ \E setup \in Setups : \E ctrl \in Controls(setup.initialHessian) :
          InitOptimWith(ctrl, setup.problem)
     \/ \E ctrl \in ScenarioControls : InitOptimWith(ctrl, ScenarioProblem)

Next == OuterIteration \/ Return

Spec == Init /\ [][Next]_vars

(***************************************************************************)
(* Properties of bfgsOptim.  history[j] is what outer iteration j did; n   *)
(* outer iterations have been executed when Len(history) = n.              *)
(***************************************************************************)
Running == pc \in {"loop", "done"}

Returned == pc = "done"

Executed == Len(history)

\* the combined fit and gradients at the point outer iteration j produced
FitAfter(j) == combinedFit(problem, history[j].parameters_k)

GradientsAfter(j) == combinedGradients(problem, history[j].parameters_k)

IsScenario == Running /\ problem = ScenarioProblem /\ control_ \in ScenarioControls

Filled(i) == fits[i] # NA_REAL

\* C2: in the end-to-end scenario (f(x) = x^2, x0 = 10, initialHessian [2],
\* stepSize 0.5, sigma 0.01, gamma 0, maxIterOut 50, gradients_, breakOuter
\* 1e-6) the filled entries of the fit trace are strictly decreasing and
\* bfgsOptim returns convergence = true with a final x within 1e-3 of 0.
C2_ScenarioConverges ==
  IsScenario =>
    /\ \A i \in 1..(Len(fits) - 1) :
         (Filled(i) /\ Filled(i + 1)) => Lt(fits[i + 1], fits[i])
    /\ Returned =>
         /\ fitResults_.convergence = TRUE
         /\ Lt(Abs(fitResults_.parameterValues[1]), Q(1, 1000))
         /\ fitResults_.fits = fits

\* the scenario has returned: one outer iteration took x from 10 to 0 and
\* the fit from 100 to 0
C2_Witness ==
  /\ IsScenario /\ Returned
  /\ fitResults_.convergence = TRUE
  /\ fitResults_.parameterValues = <<ZERO>>
  /\ Executed = 1
  /\ fits[1] = Q(100, 1) /\ fits[2] = ZERO /\ ~Filled(3)

\* the step length of the point the line search of iteration j returned
LastStep(j) ==
  history[j].lineSearch.steps[Len(history[j].lineSearch.steps)]

\* sigma * s * (gradients_kMinus1 . direction
\*              + gamma * direction * Hessian_kMinus1 * direction^T)
ToleranceBound(j) ==
  Mul(Mul(control_.sigma, LastStep(j)),
      Add(Dot(history[j].gradients_kMinus1, history[j].direction),
          Mul(control_.gamma,
              Dot(history[j].direction,
                  MatVec(history[j].Hessian_kMinus1, history[j].direction)))))

\* C3: in every outer iteration whose line search returned a point that
\* passed the sufficient-decrease test with step length s, the recorded
\* fits satisfy fits[k+1] - fits[k] <= sigma * s * (gradients_kMinus1 .
\* direction + gamma * direction * Hessian_kMinus1 * direction^T), fits[k]
\* being the combined fit of the previous point.
C3_AcceptedStepWithinTolerance ==
  Running =>
    \A j \in 1..Executed :
      history[j].lineSearch.passed =>
        /\ Filled(j) /\ Filled(j + 1)
        /\ fits[j] = combinedFit(problem, history[j].parameters_kMinus1)
        /\ Leq(Sub(fits[j + 1], fits[j]), ToleranceBound(j))

\* a second iteration accepted the half step under sigma = 0.01, gamma = 1
\* and lowered the fit
C3_Witness ==
  /\ Running /\ Executed = 2
  /\ control_.sigma = Q(1, 100) /\ control_.gamma = ONE
  /\ history[2].lineSearch.passed /\ history[2].lineSearch.broke
  /\ LastStep(2) = Q(1, 2)
  /\ Lt(fits[3], fits[2])

\* the configured criterion, evaluated on what outer iteration j produced
CriterionMet(j) ==
  IF control_.convergenceCriterion = "GLMNET_"
    THEN \A i \in 1..Len(history[j].direction) :
           LET v == Mul(history[j].Hessian_k[i][i],
                        Mul(history[j].direction[i], history[j].direction[i]))
           IN IsNaN(v) \/ Lt(v, control_.breakOuter)
  ELSE IF control_.convergenceCriterion = "fitChange_"
    THEN Lt(Abs(Sub(FitAfter(j),
                    combinedFit(problem, history[j].parameters_kMinus1))),
            control_.breakOuter)
  ELSE \A i \in 1..Len(GradientsAfter(j)) :
         Lt(Abs(GradientsAfter(j)[i]), control_.breakOuter)

OuterWarning ==
  \E i \in 1..Len(warnings) : warnings[i] = "Outer iterations did not converge"

\* C5: bfgsOptim returns convergence = false and warns "Outer iterations
\* did not converge" exactly when the loop ran all maxIterOut iterations
\* without the criterion being met in any of them (maxIterOut = 0
\* included); otherwise it returns convergence = true without that warning
\* and stopped at the first iteration in which the criterion was met.
C5_ConvergenceFlag ==
  /\ (Running /\ ~Returned) => ~OuterWarning
  /\ Returned =>
       /\ Executed <= control_.maxIterOut
       /\ (fitResults_.convergence = FALSE) <=>
            (Executed = control_.maxIterOut /\
             \A j \in 1..Executed : ~CriterionMet(j))
       /\ OuterWarning <=> (fitResults_.convergence = FALSE)
       /\ (fitResults_.convergence = TRUE) =>
            /\ Executed >= 1 /\ CriterionMet(Executed)
            /\ \A j \in 1..(Executed - 1) : ~CriterionMet(j)

\* fitChange_ was met in the second iteration and not in the first
C5_Witness ==
  /\ Returned /\ control_.convergenceCriterion = "fitChange_"
  /\ Executed = 2
  /\ fitResults_.convergence = TRUE
  /\ ~CriterionMet(1) /\ CriterionMet(2)
  /\ ~OuterWarning

\* C6, in every state: fits has length maxIterOut + 1, entry 0 is the
\* combined fit at the starting values, entry j (1 <= j <= n) the combined
\* fit at the point outer iteration j produced, every later entry NA_REAL;
\* the returned trace is this vector.
FitsShape ==
  Running =>
    /\ Len(fits) = control_.maxIterOut + 1
    /\ fits[1] = combinedFit(problem, problem.startingValues)
    /\ \A j \in 1..Executed : fits[j + 1] = FitAfter(j)
    /\ \A i \in (Executed + 2)..Len(fits) : fits[i] = NA_REAL
    /\ Returned => fitResults_.fits = fits

\* C6: the fit trace always has length maxIterOut + 1, holds the combined
\* fit at the starting values in entry 0 and the combined fit after outer
\* iteration j in entry j, is NA_REAL beyond the iterations executed, and
\* no entry is written twice (an entry once written never changes).
C6_FitTrace ==
  /\ []FitsShape
  /\ [][Running => \A i \in 1..(Executed + 1) : fits'[i] = fits[i]]_vars

\* returned after one of two allowed iterations: two entries filled, the
\* third still NA_REAL
C6_Witness ==
  /\ Returned /\ control_.maxIterOut = 2 /\ Executed = 1
  /\ Filled(1) /\ Filled(2) /\ fits[3] = NA_REAL
  /\ fits[2] # fits[1]

GradientsBelow(j) ==
  \A i \in 1..Len(GradientsAfter(j)) :
    Lt(Abs(GradientsAfter(j)[i]), control_.breakOuter)

GradientsZero(j) ==
  \A i \in 1..Len(GradientsAfter(j)) : GradientsAfter(j)[i] = ZERO

\* C7: with convergenceCriterion = gradients_, bfgsOptim stops with
\* convergence = true at the first outer iteration whose new point has
\* every component of the combined gradient below breakOuter in absolute
\* value; hence (breakOuter being positive) an iteration that reaches a
\* point with gradient exactly zero is the last one and the call returns
\* convergence = true.
C7_GradientsCriterion ==
  (Running /\ control_.convergenceCriterion = "gradients_") =>
    /\ \A j \in 1..(Executed - 1) : ~GradientsBelow(j)
    /\ Executed >= 1 => (breakOuter <=> GradientsBelow(Executed))
    /\ Returned =>
         (fitResults_.convergence = TRUE) <=>
           (Executed >= 1 /\ GradientsBelow(Executed))
    /\ \A j \in 1..Executed :
         (GradientsZero(j) /\ Lt(ZERO, control_.breakOuter)) =>
           /\ j = Executed /\ breakOuter
           /\ Returned => fitResults_.convergence = TRUE

\* two parameters: the first of two allowed iterations reached the optimum
\* (0, 1), where both gradient components are exactly zero
C7_Witness ==
  /\ Returned /\ control_.convergenceCriterion = "gradients_"
  /\ Len(problem.startingValues) = 2
  /\ Executed = 1 /\ control_.maxIterOut = 2
  /\ GradientsZero(1)
  /\ fitResults_.convergence = TRUE
  /\ fitResults_.parameterValues = <<ZERO, ONE>>

====
